---- MODULE Spec2Model ----
(***************************************************************************)
(* Model of the math-engine expression evaluator: the recursive-descent    *)
(* parser of the AST builder (NewAST, ParseExpression, parsePrimary,       *)
(* parseNumber, parseBinOpRHS, getNextToken, getTokPrecedence), the        *)
(* tree-walking evaluator ExprASTResult and the pipeline ParseAndExec.     *)
(* The Go call stack of the parser is an explicit sequence of frames; one  *)
(* action is one stretch of code between two calls or returns.             *)
(***************************************************************************)
EXTENDS Integers, Sequences, FiniteSets, TLC

VARIABLES lexErr, Tokens, currTok, currIndex, depth, Err, stack, ret, pc, r, err

vars == <<lexErr, Tokens, currTok, currIndex, depth, Err, stack, ret, pc, r, err>>

(***************************************************************************)
(* Bounds of the explored inputs.                                          *)
(***************************************************************************)
\* longest arbitrary token sequence (well-formed or not)
MaxLen == 4
\* longest well-formed expression over every operator of the table
MaxExprLen == 5
\* longest well-formed expression over the operators of DeepOps
MaxDeepLen == 7

(***************************************************************************)
(* Tokens.  The tokenizer is an external collaborator: a token is its      *)
(* text, its category and the byte offset of the text in the source.      *)
(***************************************************************************)
Literal == "Literal"
Operator == "Operator"
COMMA == "COMMA"

\* precedence, the binding-power table
precedence ==
  [t \in {"+", "-", "*", "/", "%", ">", "&", "<", ">>", "<<", "|", "^"} |->
     CASE t \in {"*", "/", "%"} -> 100
       [] t \in {"+", "-"} -> 90
       [] t \in {">>", "<<"} -> 80
       [] t \in {">", "<"} -> 70
       [] t = "&" -> 60
       [] t = "^" -> 50
       [] t = "|" -> 40]

BinOps == DOMAIN precedence

\* strconv.Atoi on the literal texts of the model: the decimal texts convert,
\* every other text ("1.5", an operator, a parenthesis) is a syntax error
AtoiTable == ("0" :> 0) @@ ("2" :> 2) @@ ("3" :> 3)

AtoiOk(text) == text \in DOMAIN AtoiTable

Atoi(text) == AtoiTable[text]

LiteralTexts == {"0", "2", "3", "1.5"}

TokType(text) ==
  IF text \in LiteralTexts THEN Literal
  ELSE IF text = "," THEN COMMA
  ELSE Operator

TokLen(text) ==
  IF text \in {">>", "<<"} THEN 2 ELSE IF text = "1.5" THEN 3 ELSE 1

RECURSIVE SourceLen(_)
\* length of the source text of a sequence of token texts (no blanks)
SourceLen(texts) ==
  IF texts = <<>> THEN 0
  ELSE TokLen(Head(texts)) + SourceLen(Tail(texts))

\* the token sequence the tokenizer hands over for a sequence of texts
MkTokens(texts) ==
  [i \in 1..Len(texts) |->
     [Tok |-> texts[i], Type |-> TokType(texts[i]),
      Offset |-> SourceLen(SubSeq(texts, 1, i - 1))]]

NoToken == [Tok |-> "", Type |-> "nil", Offset |-> 0]

(***************************************************************************)
(* Expression trees: the ExprAST interface values.                         *)
(***************************************************************************)
NilExpr == [kind |-> "nil"]

NumberExprAST(val, str) == [kind |-> "Number", Val |-> val, Str |-> str]

\* NumberExprAST{}: the zero value, the placeholder of a failed parseNumber
\* and the left operand of a desugared unary minus
ZeroNumber == NumberExprAST(0, "")

BinaryExprAST(op, lhs, rhs) == [kind |-> "Binary", Op |-> op, Lhs |-> lhs, Rhs |-> rhs]

(***************************************************************************)
(* Errors: the message (with the token it names) and the offset handed to  *)
(* ErrPos, which decides where the caret of the diagnostic stands.         *)
(***************************************************************************)
NoErr == [msg |-> "nil", tok |-> "", offset |-> 0]

MkErr(msg, tok, offset) == [msg |-> msg, tok |-> tok, offset |-> offset]

(***************************************************************************)
(* Parser helpers.                                                         *)
(***************************************************************************)
\* getNextToken without the increment of the position
getNextTokenStuck(toks, tok, idx) ==
  IF idx < Len(toks)
  THEN [currIndex |-> idx, currTok |-> toks[idx + 1], t |-> toks[idx + 1]]
  ELSE [currIndex |-> idx, currTok |-> tok, t |-> NoToken]

\* getNextToken: the position always advances, the current token only when
\* a token is left; t is the returned pointer (NoToken for nil)
getNextToken(toks, tok, idx) ==
  LET i == idx + 1 IN
  IF i < Len(toks)
  THEN [currIndex |-> i, currTok |-> toks[i + 1], t |-> toks[i + 1]]
  ELSE [currIndex |-> i, currTok |-> tok, t |-> NoToken]

getTokPrecedence(tok) ==
  IF tok.Tok \in DOMAIN precedence THEN precedence[tok.Tok] ELSE -1

\* parseNumber that returns the placeholder without recording the error
parseNumberSilent(toks, tok, idx, e) ==
  IF ~AtoiOk(tok.Tok)
  THEN [n |-> ZeroNumber, currIndex |-> idx, currTok |-> tok, Err |-> e]
  ELSE LET g == getNextToken(toks, tok, idx) IN
       [n |-> NumberExprAST(Atoi(tok.Tok), tok.Tok),
        currIndex |-> g.currIndex, currTok |-> g.currTok, Err |-> e]

\* parseNumber: a failed conversion assigns Err, consumes nothing and returns
\* the placeholder NumberExprAST{}
parseNumber(toks, tok, idx, e) ==
  IF ~AtoiOk(tok.Tok)
  THEN [n |-> ZeroNumber, currIndex |-> idx, currTok |-> tok,
        Err |-> MkErr("want '(' or '0-9' but get token", tok.Tok, tok.Offset)]
  ELSE LET g == getNextToken(toks, tok, idx) IN
       [n |-> NumberExprAST(Atoi(tok.Tok), tok.Tok),
        currIndex |-> g.currIndex, currTok |-> g.currTok, Err |-> e]

\* the leftover check without the test of the depth
LeftoverCheckAnyDepth(d, idx, toks, e) == idx # Len(toks) /\ e = NoErr

\* the condition of the leftover check at the end of ParseExpression
LeftoverCheck(d, idx, toks, e) == d = 0 /\ idx # Len(toks) /\ e = NoErr

\* the recursion condition with the comparison inverted
BindsTighterInverted(tokPrec, nextPrec) == nextPrec < tokPrec

\* the recursion condition of parseBinOpRHS
BindsTighter(tokPrec, nextPrec) == tokPrec < nextPrec

\* the unary minus node with its operands swapped
UnaryMinusSwapped(operand) == BinaryExprAST("-", operand, ZeroNumber)

\* the node parsePrimary builds for a unary minus
UnaryMinus(operand) == BinaryExprAST("-", ZeroNumber, operand)

(***************************************************************************)
(* Call stack of the parser: the head of the sequence is the running call. *)
(***************************************************************************)
Frame(fn, at, execPrec, lhs, tokPrec, binOp) ==
  [fn |-> fn, at |-> at, execPrec |-> execPrec, lhs |-> lhs,
   tokPrec |-> tokPrec, binOp |-> binOp]

CallParseExpression == Frame("ParseExpression", "enter", 0, NilExpr, 0, "")
CallParsePrimary == Frame("parsePrimary", "enter", 0, NilExpr, 0, "")
CallParseBinOpRHS(execPrec, lhs) == Frame("parseBinOpRHS", "loop", execPrec, lhs, 0, "")

Top == Head(stack)

Running(fn, at) ==
  /\ pc = "ParseExpression"
  /\ stack # <<>>
  /\ Top.fn = fn
  /\ Top.at = at

\* the running call moves to position at and calls callee
Call(at, callee) == <<callee>> \o <<[Top EXCEPT !.at = at]>> \o Tail(stack)

\* the running call goes on as frame f
Goto(f) == <<f>> \o Tail(stack)

(***************************************************************************)
(* Evaluator.  Go's int arithmetic on the values the explored inputs       *)
(* produce (all far below 2^31, so no wrap-around is involved).            *)
(***************************************************************************)
Abs(x) == IF x < 0 THEN -x ELSE x

\* l / r of Go: the quotient truncated toward zero
Quo(l, rr) ==
  IF (l < 0) = (rr < 0) THEN Abs(l) \div Abs(rr) ELSE -(Abs(l) \div Abs(rr))

\* l % r of Go: the remainder has the sign of the dividend
Rem(l, rr) == l - rr * Quo(l, rr)

RECURSIVE Pow2(_)
Pow2(n) == IF n = 0 THEN 1 ELSE 2 * Pow2(n - 1)

RECURSIVE BitAnd(_, _)
\* l & r on two's complement integers
BitAnd(x, y) ==
  IF x = 0 \/ y = 0 THEN 0
  ELSE IF x = -1 THEN y
  ELSE IF y = -1 THEN x
  ELSE ((x % 2) * (y % 2)) + 2 * BitAnd(x \div 2, y \div 2)

RECURSIVE BitXor(_, _)
\* l ^ r on two's complement integers
BitXor(x, y) ==
  IF x = 0 THEN y
  ELSE IF y = 0 THEN x
  ELSE IF x = -1 THEN -y - 1
  ELSE IF y = -1 THEN -x - 1
  ELSE (((x % 2) + (y % 2)) % 2) + 2 * BitXor(x \div 2, y \div 2)

\* l >> r: arithmetic shift
ShiftRight(l, rr) == IF rr >= 64 THEN (IF l < 0 THEN -1 ELSE 0) ELSE l \div Pow2(rr)

\* l << r
ShiftLeft(l, rr) == IF rr >= 64 THEN 0 ELSE l * Pow2(rr)

Value(v) == [panic |-> FALSE, val |-> v, msg |-> ""]

Panic(msg) == [panic |-> TRUE, val |-> 0, msg |-> msg]

\* the operand values on which an operator of ExprASTResult panics: the
\* explicit panic of "/" and the run-time panics of Go's integer "%" by zero
\* and of a shift by a negative count
Panics(op, l, rr) ==
  \/ op = "/" /\ rr = 0
  \/ op = "%" /\ rr = 0
  \/ op \in {">>", "<<"} /\ rr < 0

PanicMsg(op) ==
  IF op = "/" THEN "violation of arithmetic specification: a division by zero in ExprASTResult"
  ELSE IF op = "%" THEN "runtime error: integer divide by zero"
  ELSE "runtime error: negative shift amount"

\* the switch on ast.Op for operands that do not panic; an operator without
\* a case ("|") falls through to the final return 0
BinaryValue(op, l, rr) ==
  CASE op = "+" -> l + rr
    [] op = "-" -> l - rr
    [] op = "*" -> l * rr
    [] op = "/" -> Quo(l, rr)
    [] op = "%" -> Rem(l, rr)
    [] op = "^" -> BitXor(l, rr)
    [] op = ">>" -> ShiftRight(l, rr)
    [] op = "<<" -> ShiftLeft(l, rr)
    [] op = ">" -> IF l > rr THEN 1 ELSE 0
    [] op = "<" -> IF l < rr THEN 1 ELSE 0
    [] op = "&" -> BitAnd(l, rr)
    [] OTHER -> 0

\* a node that yields 0 where the operation cannot be carried out
BinaryResultSwallowed(op, l, rr) ==
  IF Panics(op, l, rr) THEN Value(0) ELSE Value(BinaryValue(op, l, rr))

\* one BinaryExprAST node of ExprASTResult
BinaryResult(op, l, rr) ==
  IF Panics(op, l, rr) THEN Panic(PanicMsg(op)) ELSE Value(BinaryValue(op, l, rr))

RECURSIVE ExprASTResult(_)
\* post-order walk; a panic unwinds through every enclosing call
ExprASTResult(expr) ==
  IF expr.kind = "Binary"
  THEN LET l == ExprASTResult(expr.Lhs) IN
       IF l.panic THEN l
       ELSE LET rr == ExprASTResult(expr.Rhs) IN
            IF rr.panic THEN rr ELSE BinaryResult(expr.Op, l.val, rr.val)
  ELSE IF expr.kind = "Number" THEN Value(expr.Val)
  ELSE Value(0)

(***************************************************************************)
(* Inputs: every token sequence up to MaxLen over an alphabet with each    *)
(* kind of token, and the well-formed expressions up to MaxExprLen over    *)
(* all operators and up to MaxDeepLen over DeepOps.                        *)
(***************************************************************************)
AnyTexts == {"2", "1.5", "(", ")", "-", "*", ","}
ExprLits == {"0", "2"}
DeepLits == {"2", "3"}
DeepOps == {"-", "*", "/", "^"}

SeqsUpTo(S, n) == UNION {[1..k -> S] : k \in 0..n}

RECURSIVE PrimSeqs(_, _, _), ExprSeqs(_, _, _)
\* the primaries of exactly n tokens
PrimSeqs(n, lits, ops) ==
  IF n <= 0 THEN {}
  ELSE (IF n = 1 THEN {<<l>> : l \in lits} ELSE {})
       \cup {<<"-">> \o p : p \in PrimSeqs(n - 1, lits, ops)}
       \cup {<<"(">> \o e \o <<")">> : e \in ExprSeqs(n - 2, lits, ops)}

\* the expressions of exactly n tokens
ExprSeqs(n, lits, ops) ==
  IF n <= 0 THEN {}
  ELSE PrimSeqs(n, lits, ops)
       \cup UNION {{e \o <<op>> \o p : e \in ExprSeqs(k, lits, ops), op \in ops,
                                       p \in PrimSeqs(n - 1 - k, lits, ops)}
                   : k \in 1..(n - 2)}

Inputs ==
  SeqsUpTo(AnyTexts, MaxLen)
  \cup UNION {ExprSeqs(n, ExprLits, BinOps) : n \in 1..MaxExprLen}
  \cup UNION {ExprSeqs(n, DeepLits, DeepOps) : n \in 1..MaxDeepLen}

(***************************************************************************)
(* ParseAndExec starts with the outcome of the tokenizer: a lexical error  *)
(* or a token sequence (possibly empty).                                   *)
(***************************************************************************)
Init ==
  /\ lexErr \in BOOLEAN
  /\ Tokens \in {MkTokens(t) : t \in Inputs}
  /\ currTok = NoToken
  /\ currIndex = 0
  /\ depth = 0
  /\ Err = NoErr
  /\ stack = <<>>
  /\ ret = NilExpr
  /\ pc = "Parse"
  /\ r = 0
  /\ err = NoErr

\* ParseAndExec returns (res, e)
Return(res, e) ==
  /\ pc' = "done"
  /\ r' = res
  /\ err' = e

\* an error check that never fires
FailedNever(e) == FALSE

\* the error checks of ParseAndExec
Failed(e) == e # NoErr

\* toks, err := Parse(s); if err != nil { return 0, err }
Parse ==
  /\ pc = "Parse"
  /\ IF lexErr
     THEN Return(0, MkErr("lexical error", "", 0))
     ELSE pc' = "NewAST" /\ UNCHANGED <<r, err>>
  /\ UNCHANGED <<lexErr, Tokens, currTok, currIndex, depth, Err, stack, ret>>

\* ast := NewAST(toks, s); if ast.Err != nil { return 0, ast.Err };
\* then the call of ast.ParseExpression()
NewAST ==
  /\ pc = "NewAST"
  /\ IF Len(Tokens) = 0
     THEN /\ Err' = MkErr("empty token", "", 0)
          /\ UNCHANGED <<currIndex, currTok>>
     ELSE /\ currIndex' = 0
          /\ currTok' = Tokens[1]
          /\ Err' = Err
  /\ IF Failed(Err')
     THEN Return(0, Err') /\ stack' = stack
     ELSE pc' = "ParseExpression" /\ stack' = <<CallParseExpression>> /\ UNCHANGED <<r, err>>
  /\ UNCHANGED <<lexErr, Tokens, depth, ret>>

\* ParseExpression: a.depth++; lhs := a.parsePrimary()
ParseExpression_Enter ==
  /\ Running("ParseExpression", "enter")
  /\ depth' = depth + 1
  /\ stack' = Call("afterPrimary", CallParsePrimary)
  /\ UNCHANGED <<lexErr, Tokens, currTok, currIndex, Err, ret, pc, r, err>>

\* ParseExpression: r := a.parseBinOpRHS(0, lhs)
ParseExpression_AfterPrimary ==
  /\ Running("ParseExpression", "afterPrimary")
  /\ stack' = Call("afterRHS", CallParseBinOpRHS(0, ret))
  /\ UNCHANGED <<lexErr, Tokens, currTok, currIndex, depth, Err, ret, pc, r, err>>

\* ParseExpression: a.depth--; the leftover check; return r
ParseExpression_Return ==
  /\ Running("ParseExpression", "afterRHS")
  /\ depth' = depth - 1
  /\ Err' = IF LeftoverCheck(depth', currIndex, Tokens, Err)
            THEN MkErr("bad expression, reaching the end or missing the operator",
                       "", currTok.Offset)
            ELSE Err
  /\ stack' = Tail(stack)
  /\ UNCHANGED <<lexErr, Tokens, currTok, currIndex, ret, pc, r, err>>

\* parsePrimary: the switch on the category of the current token
parsePrimary_Enter ==
  /\ Running("parsePrimary", "enter")
  /\ LET g == getNextToken(Tokens, currTok, currIndex)
         n == parseNumber(Tokens, currTok, currIndex, Err)
     IN
     CASE currTok.Type = Literal \/ (currTok.Type = Operator /\ currTok.Tok \notin {"(", "-"}) ->
            /\ currIndex' = n.currIndex
            /\ currTok' = n.currTok
            /\ Err' = n.Err
            /\ ret' = n.n
            /\ stack' = Tail(stack)
       [] currTok.Type = Operator /\ currTok.Tok = "(" ->
            /\ currIndex' = g.currIndex
            /\ currTok' = g.currTok
            /\ IF g.t = NoToken
               THEN /\ Err' = MkErr("want '(' or '0-9' but get EOF", "", g.currTok.Offset)
                    /\ ret' = NilExpr
                    /\ stack' = Tail(stack)
               ELSE /\ stack' = Call("afterParen", CallParseExpression)
                    /\ UNCHANGED <<Err, ret>>
       [] currTok.Type = Operator /\ currTok.Tok = "-" ->
            /\ currIndex' = g.currIndex
            /\ currTok' = g.currTok
            /\ IF g.t = NoToken
               THEN /\ Err' = MkErr("want '0-9' but get '-'", "", g.currTok.Offset)
                    /\ ret' = NilExpr
                    /\ stack' = Tail(stack)
               ELSE /\ stack' = Call("afterMinus", CallParsePrimary)
                    /\ UNCHANGED <<Err, ret>>
       [] currTok.Type = COMMA ->
            /\ Err' = MkErr("want '(' or '0-9' but get token", currTok.Tok, currTok.Offset)
            /\ ret' = NilExpr
            /\ stack' = Tail(stack)
            /\ UNCHANGED <<currIndex, currTok>>
       [] OTHER ->
            /\ ret' = NilExpr
            /\ stack' = Tail(stack)
            /\ UNCHANGED <<currIndex, currTok, Err>>
  /\ UNCHANGED <<lexErr, Tokens, depth, pc, r, err>>

\* parsePrimary after e := a.ParseExpression(): the closing parenthesis
parsePrimary_AfterParen ==
  /\ Running("parsePrimary", "afterParen")
  /\ LET g == getNextToken(Tokens, currTok, currIndex) IN
     IF ret = NilExpr
     THEN UNCHANGED <<currIndex, currTok, Err, ret>>
     ELSE IF currTok.Tok # ")"
     THEN /\ Err' = MkErr("want ')' but get token", currTok.Tok, currTok.Offset)
          /\ ret' = NilExpr
          /\ UNCHANGED <<currIndex, currTok>>
     ELSE /\ currIndex' = g.currIndex
          /\ currTok' = g.currTok
          /\ UNCHANGED <<Err, ret>>
  /\ stack' = Tail(stack)
  /\ UNCHANGED <<lexErr, Tokens, depth, pc, r, err>>

\* parsePrimary after Rhs: a.parsePrimary() of the unary minus
parsePrimary_AfterMinus ==
  /\ Running("parsePrimary", "afterMinus")
  /\ ret' = UnaryMinus(ret)
  /\ stack' = Tail(stack)
  /\ UNCHANGED <<lexErr, Tokens, currTok, currIndex, depth, Err, pc, r, err>>

\* parseBinOpRHS: the head of the loop up to rhs := a.parsePrimary()
parseBinOpRHS_Loop ==
  /\ Running("parseBinOpRHS", "loop")
  /\ LET tokPrec == getTokPrecedence(currTok)
         g == getNextToken(Tokens, currTok, currIndex)
     IN
     IF tokPrec < Top.execPrec
     THEN /\ ret' = Top.lhs
          /\ stack' = Tail(stack)
          /\ UNCHANGED <<currIndex, currTok, Err>>
     ELSE /\ currIndex' = g.currIndex
          /\ currTok' = g.currTok
          /\ IF g.t = NoToken
             THEN /\ Err' = MkErr("want '(' or '0-9' but get EOF", "", g.currTok.Offset)
                  /\ ret' = NilExpr
                  /\ stack' = Tail(stack)
             ELSE /\ stack' = <<CallParsePrimary,
                                [Top EXCEPT !.at = "afterPrimary", !.tokPrec = tokPrec,
                                            !.binOp = currTok.Tok]>> \o Tail(stack)
                  /\ UNCHANGED <<Err, ret>>
  /\ UNCHANGED <<lexErr, Tokens, depth, pc, r, err>>

\* parseBinOpRHS after rhs := a.parsePrimary(): the look-ahead at the next
\* operator, then the recursion or the fold lhs = BinaryExprAST{binOp, lhs, rhs}
parseBinOpRHS_AfterPrimary ==
  /\ Running("parseBinOpRHS", "afterPrimary")
  /\ LET nextPrec == getTokPrecedence(currTok) IN
     IF ret = NilExpr
     THEN stack' = Tail(stack)
     ELSE IF BindsTighter(Top.tokPrec, nextPrec)
     THEN stack' = Call("afterRecurse", CallParseBinOpRHS(Top.tokPrec + 1, ret))
     ELSE stack' = Goto([Top EXCEPT !.at = "loop",
                                    !.lhs = BinaryExprAST(Top.binOp, Top.lhs, ret)])
  /\ UNCHANGED <<lexErr, Tokens, currTok, currIndex, depth, Err, ret, pc, r, err>>

\* parseBinOpRHS after rhs = a.parseBinOpRHS(tokPrec+1, rhs)
parseBinOpRHS_AfterRecurse ==
  /\ Running("parseBinOpRHS", "afterRecurse")
  /\ IF ret = NilExpr
     THEN stack' = Tail(stack)
     ELSE stack' = Goto([Top EXCEPT !.at = "loop",
                                    !.lhs = BinaryExprAST(Top.binOp, Top.lhs, ret)])
  /\ UNCHANGED <<lexErr, Tokens, currTok, currIndex, depth, Err, ret, pc, r, err>>

\* ParseAndExec after ar := ast.ParseExpression(): if ast.Err != nil
\* { return 0, ast.Err }
CheckErr ==
  /\ pc = "ParseExpression"
  /\ stack = <<>>
  /\ IF Failed(Err)
     THEN Return(0, Err)
     ELSE pc' = "Exec" /\ UNCHANGED <<r, err>>
  /\ UNCHANGED <<lexErr, Tokens, currTok, currIndex, depth, Err, stack, ret>>

\* return ExprASTResult(ar), err under the deferred recover(): a panic leaves
\* the named result r at 0 and becomes err
Exec ==
  /\ pc = "Exec"
  /\ LET res == ExprASTResult(ret) IN
     IF res.panic
     THEN Return(0, MkErr(res.msg, "", 0))
     ELSE Return(res.val, NoErr)
  /\ UNCHANGED <<lexErr, Tokens, currTok, currIndex, depth, Err, stack, ret>>

Next ==
  \/ Parse
  \/ NewAST
  \/ ParseExpression_Enter
  \/ ParseExpression_AfterPrimary
  \/ ParseExpression_Return
  \/ parsePrimary_Enter
  \/ parsePrimary_AfterParen
  \/ parsePrimary_AfterMinus
  \/ parseBinOpRHS_Loop
  \/ parseBinOpRHS_AfterPrimary
  \/ parseBinOpRHS_AfterRecurse
  \/ CheckErr
  \/ Exec

Spec == Init /\ [][Next]_vars

\* the call runs to completion: a sequential program does not stop by itself
FairSpec == Spec /\ WF_vars(Next)

Done == pc = "done"

(***************************************************************************)
(* Vocabulary of the properties.                                           *)
(***************************************************************************)
Texts == [i \in 1..Len(Tokens) |-> Tokens[i].Tok]

\* the top-level ParseExpression has returned
ParseReturned == pc = "ParseExpression" /\ stack = <<>>

\* the parse finished without an error: ret is the tree handed to the evaluator
Accepted == pc = "Exec"

BadExpression == "bad expression, reaching the end or missing the operator"

RECURSIVE IsPrimary(_, _, _), IsExpr(_, _, _)
\* t[lo..hi] is a primary: a literal, a negated primary or ( expression )
IsPrimary(t, lo, hi) ==
  /\ lo <= hi
  /\ \/ lo = hi /\ AtoiOk(t[lo])
     \/ t[lo] = "-" /\ IsPrimary(t, lo + 1, hi)
     \/ t[lo] = "(" /\ t[hi] = ")" /\ IsExpr(t, lo + 1, hi - 1)

\* t[lo..hi] is an expression: primaries separated by binary operators
IsExpr(t, lo, hi) ==
  \/ IsPrimary(t, lo, hi)
  \/ \E k \in (lo + 1)..(hi - 1) :
       t[k] \in BinOps /\ IsExpr(t, lo, k - 1) /\ IsPrimary(t, k + 1, hi)

RECURSIVE Nesting(_, _, _)
\* the number of parentheses of t[lo..hi] that are still open after hi
Nesting(t, lo, hi) ==
  IF hi < lo THEN 0
  ELSE Nesting(t, lo, hi - 1)
       + (IF t[hi] = "(" THEN 1 ELSE IF t[hi] = ")" THEN -1 ELSE 0)

\* the token at i stands where a primary is expected
PrimaryPosition(t, lo, i) == i = lo \/ ~(AtoiOk(t[i - 1]) \/ t[i - 1] = ")")

\* the binary operators of t[lo..hi] outside every parenthesis
TopOperators(t, lo, hi) ==
  {i \in (lo + 1)..(hi - 1) :
     t[i] \in BinOps /\ ~PrimaryPosition(t, lo, i) /\ Nesting(t, lo, i) = 0}

RECURSIVE RefPrimary(_, _, _), RefExpr(_, _, _)
\* the reference tree of the primary t[lo..hi]
RefPrimary(t, lo, hi) ==
  IF t[lo] = "-" THEN BinaryExprAST("-", ZeroNumber, RefPrimary(t, lo + 1, hi))
  ELSE IF t[lo] = "(" THEN RefExpr(t, lo + 1, hi - 1)
  ELSE NumberExprAST(AtoiTable[t[lo]], t[lo])

\* the reference grouping of the expression t[lo..hi]: split at the last of
\* the operators of lowest binding power outside every parenthesis
RefExpr(t, lo, hi) ==
  LET ops == TopOperators(t, lo, hi) IN
  IF ops = {} THEN RefPrimary(t, lo, hi)
  ELSE LET low == CHOOSE p \in {precedence[t[i]] : i \in ops} :
                    \A i \in ops : p <= precedence[t[i]]
           k == CHOOSE i \in ops :
                  /\ precedence[t[i]] = low
                  /\ \A j \in ops : precedence[t[j]] = low => j <= i
       IN BinaryExprAST(t[k], RefExpr(t, lo, k - 1), RefExpr(t, k + 1, hi))

(***************************************************************************)
(* C1.  Sticky first error: once Err has been set it is never assigned     *)
(* again during the parse, so the error returned is the first one.         *)
(***************************************************************************)
StickyFirstError == [][Err # NoErr => Err' = Err]_vars

(***************************************************************************)
(* C2.  Cursor bounds: in every state the position satisfies               *)
(* 0 <= currIndex <= len(Tokens).                                          *)
(***************************************************************************)
CursorBounds == 0 <= currIndex /\ currIndex <= Len(Tokens)

(***************************************************************************)
(* C4.  Precedence and associativity: a token sequence that parses without *)
(* error is a well-formed expression, and the tree returned is its         *)
(* reference grouping (tighter binding power groups first, equal binding   *)
(* power groups left to right, a parenthesised expression is one operand). *)
(***************************************************************************)
PrecedenceGrouping ==
  Accepted => /\ IsExpr(Texts, 1, Len(Texts))
              /\ ret = RefExpr(Texts, 1, Len(Texts))

\* an accepted a - b * c - d without parentheses: the tree is -(-(a, *(b, c)), d)
PrecedenceWitness ==
  /\ Accepted
  /\ Len(Texts) = 7
  /\ \A i \in 1..7 : Texts[i] \notin {"(", ")"}
  /\ Texts[2] = "-" /\ Texts[4] = "*" /\ Texts[6] = "-"
  /\ ret.Op = "-"
  /\ ret.Lhs.kind = "Binary" /\ ret.Lhs.Op = "-"
  /\ ret.Lhs.Rhs.kind = "Binary" /\ ret.Lhs.Rhs.Op = "*"

(***************************************************************************)
(* C3.  As claimed: an accepted tree fails to evaluate exactly when some   *)
(* evaluated "/" node has a right operand that evaluates to 0.             *)
(***************************************************************************)
RECURSIVE Faults(_, _)
\* some node of tree that is reached with both operands evaluated has an
\* operator of ops and a right operand whose value is in Bad[op]
Faults(tree, Bad) ==
  /\ tree.kind = "Binary"
  /\ \/ Faults(tree.Lhs, Bad)
     \/ Faults(tree.Rhs, Bad)
     \/ /\ ~ExprASTResult(tree.Lhs).panic
        /\ ~ExprASTResult(tree.Rhs).panic
        /\ tree.Op \in DOMAIN Bad
        /\ Bad[tree.Op][ExprASTResult(tree.Rhs).val]

\* the tree was accepted and ParseAndExec has returned
Evaluated == Done /\ ~lexErr /\ Len(Tokens) > 0 /\ Err = NoErr

IsZero == [v \in Int |-> v = 0]
IsNegative == [v \in Int |-> v < 0]

DivisionByZero == [op \in {"/"} |-> IsZero]

EvalFailsOnlyOnDivisionByZero ==
  Evaluated => ((err # NoErr) <=> Faults(ret, DivisionByZero))

(***************************************************************************)
(* C3, amended.  An accepted tree fails to evaluate exactly when some      *)
(* evaluated "/" or "%" node has a right operand that evaluates to 0 or    *)
(* some evaluated ">>" or "<<" node has a negative right operand; a        *)
(* failure returns 0 with the error, a success the value with no error.    *)
(***************************************************************************)
RuntimeFaults ==
  [op \in {"/", "%", ">>", "<<"} |-> IF op \in {"/", "%"} THEN IsZero ELSE IsNegative]

EvalFailsOnRuntimeFault ==
  Evaluated => /\ (err # NoErr) <=> Faults(ret, RuntimeFaults)
               /\ err # NoErr => r = 0
               /\ err = NoErr => r = ExprASTResult(ret).val

\* a remainder by zero reached the evaluator and came back as an error
EvalFaultWitness ==
  /\ Evaluated
  /\ err.msg = "runtime error: integer divide by zero"
  /\ ret.Op = "%"
  /\ ~Faults(ret, DivisionByZero)

(***************************************************************************)
(* C5.  Full consumption: when the top-level ParseExpression has returned  *)
(* with no error every token was consumed; the outermost return with       *)
(* tokens left and no error yet sets the "bad expression" error; and only  *)
(* the outermost return (depth back to 0) ever sets it.                    *)
(***************************************************************************)
FullConsumption ==
  /\ []((ParseReturned \/ Accepted) /\ Err = NoErr => currIndex = Len(Tokens))
  /\ [][/\ (Running("ParseExpression", "afterRHS") /\ Len(stack) = 1
            /\ currIndex # Len(Tokens) /\ Err = NoErr)
           => Err'.msg = BadExpression
        /\ (Err' # Err /\ Err'.msg = BadExpression)
           => (depth' = 0 /\ stack' = <<>> /\ Len(stack) = 1)]_vars

\* the outermost call returned from a nested parse with a token left over
FullConsumptionWitness ==
  /\ ParseReturned
  /\ Err.msg = BadExpression
  /\ currIndex < Len(Tokens)
  /\ Texts[1] = "("

(***************************************************************************)
(* C6.  Missing closing parenthesis at end of input: tokens that become a  *)
(* well-formed expression once a ")" is appended fail with a syntax error  *)
(* whose diagnostic offset is the length of the source text.               *)
(***************************************************************************)
MissingClose(t) == IsExpr(Append(t, ")"), 1, Len(t) + 1)

MissingCloseAtEndOffset ==
  (Done /\ ~lexErr /\ MissingClose(Texts))
    => err # NoErr /\ err.offset = SourceLen(Texts)

(***************************************************************************)
(* C7.  Pipeline short-circuit: the evaluator runs only after tokenizing,  *)
(* NewAST and ParseExpression have all finished without an error;          *)
(* otherwise the call returns 0 with that error; and every call ends with  *)
(* an integer and no error, or with 0 and an error.                        *)
(***************************************************************************)
PipelineShortCircuit ==
  /\ Accepted => ~lexErr /\ Len(Tokens) > 0 /\ Err = NoErr /\ stack = <<>>
  /\ Done => err = NoErr \/ r = 0
  /\ (Done /\ lexErr) => r = 0 /\ err.msg = "lexical error" /\ Err = NoErr
  /\ (Done /\ ~lexErr /\ Len(Tokens) = 0) => r = 0 /\ err.msg = "empty token"
  /\ (Done /\ ~lexErr /\ Err # NoErr) => r = 0 /\ err = Err

\* a syntax error of the parser was returned without an evaluation
PipelineWitness ==
  /\ Done
  /\ ~lexErr
  /\ Len(Tokens) > 1
  /\ Err # NoErr
  /\ err = Err
  /\ ret # NilExpr

(***************************************************************************)
(* C8.  Unary minus: parsePrimary returns, for a "-" in primary position,   *)
(* the node BinaryExprAST{"-", NumberExprAST{}, P} around the primary P it *)
(* parsed next; in an accepted tree every "-" token in primary position    *)
(* has become one such node, and for tokens that start with k minus signs  *)
(* the leftmost operand of the tree is k such nodes nested around exactly  *)
(* the primary that follows them, whatever binary operators come after it, *)
(* so that it evaluates to that primary negated k times.                   *)
(***************************************************************************)
RECURSIVE LeadingMinus(_, _)
\* the number of consecutive "-" tokens of t from position i on
LeadingMinus(t, i) ==
  IF i <= Len(t) /\ t[i] = "-" THEN 1 + LeadingMinus(t, i + 1) ELSE 0

\* the last token of the primary without sign that starts at i
PrimaryEnd(t, i) ==
  IF t[i] = "(" THEN CHOOSE j \in i..Len(t) :
                       /\ Nesting(t, i, j) = 0
                       /\ \A h \in i..(j - 1) : Nesting(t, i, h) # 0
  ELSE i

RECURSIVE NestMinus(_, _)
NestMinus(k, tree) ==
  IF k = 0 THEN tree ELSE BinaryExprAST("-", ZeroNumber, NestMinus(k - 1, tree))

RECURSIVE LeftmostOperand(_)
\* the first operand of the chain of binary operators at the root
LeftmostOperand(tree) ==
  IF tree.kind = "Binary" /\ tree.Lhs # ZeroNumber
  THEN LeftmostOperand(tree.Lhs) ELSE tree

RECURSIVE CountUnary(_)
CountUnary(tree) ==
  IF tree.kind # "Binary" THEN 0
  ELSE CountUnary(tree.Lhs) + CountUnary(tree.Rhs)
       + (IF tree.Op = "-" /\ tree.Lhs = ZeroNumber THEN 1 ELSE 0)

PrimaryMinusTokens(t) ==
  {i \in 1..Len(t) : t[i] = "-" /\ PrimaryPosition(t, 1, i)}

UnaryMinusDesugared ==
  /\ [][Running("parsePrimary", "afterMinus")
          => ret' = [kind |-> "Binary", Op |-> "-", Lhs |-> ZeroNumber, Rhs |-> ret]]_vars
  /\ [](Accepted =>
         LET k == LeadingMinus(Texts, 1)
             P == RefPrimary(Texts, k + 1, PrimaryEnd(Texts, k + 1))
             operand == LeftmostOperand(ret)
         IN
         /\ CountUnary(ret) = Cardinality(PrimaryMinusTokens(Texts))
         /\ k > 0 => /\ operand = NestMinus(k, P)
                     /\ ~ExprASTResult(P).panic
                          => ExprASTResult(operand).val
                               = (IF k % 2 = 1 THEN -1 ELSE 1) * ExprASTResult(P).val)

\* accepted tokens - - P op ... : two nested nodes below a binary operator
UnaryMinusWitness ==
  /\ Accepted
  /\ LeadingMinus(Texts, 1) = 2
  /\ Len(Texts) >= 5
  /\ ret.kind = "Binary"
  /\ ret.Lhs.kind = "Binary"
  /\ LeftmostOperand(ret).Rhs.Lhs = ZeroNumber

(***************************************************************************)
(* C9.  Well-formed tree on success: when the top-level ParseExpression    *)
(* has returned with no error, the tree is not nil, every BinaryExprAST    *)
(* has two non-nil children, and every number other than the zero of a     *)
(* unary minus carries the value of a literal token of the input.          *)
(***************************************************************************)
RECURSIVE WellFormedTree(_)
WellFormedTree(tree) ==
  \/ /\ tree.kind = "Number"
     /\ AtoiOk(tree.Str)
     /\ tree.Val = AtoiTable[tree.Str]
     /\ \E i \in 1..Len(Tokens) : Tokens[i].Type = Literal /\ Tokens[i].Tok = tree.Str
  \/ /\ tree.kind = "Binary"
     /\ tree.Rhs # NilExpr /\ tree.Lhs # NilExpr
     /\ WellFormedTree(tree.Rhs)
     /\ \/ tree.Op = "-" /\ tree.Lhs = ZeroNumber
        \/ WellFormedTree(tree.Lhs)

WellFormedOnSuccess ==
  (ParseReturned /\ Err = NoErr) => ret # NilExpr /\ WellFormedTree(ret)

\* a successful parse that went through parseNumber, a parenthesis and a
\* unary minus
WellFormedWitness ==
  /\ ParseReturned
  /\ Err = NoErr
  /\ \E i \in 1..Len(Texts) : Texts[i] = "("
  /\ ret.kind = "Binary"
  /\ ret.Lhs = ZeroNumber
  /\ ret.Rhs.kind = "Binary"

(***************************************************************************)
(* C10.  Parser termination: for every non-empty token sequence the        *)
(* top-level ParseExpression eventually returns with the depth back at 0,  *)
(* and every step lowers a measure that is a natural number: a step        *)
(* consumes a token or uses up part of the bounded work its call can do    *)
(* without consuming one.                                                  *)
(***************************************************************************)
Remaining == IF currIndex < Len(Tokens) THEN Len(Tokens) - currIndex ELSE 0

\* the steps a call may still take without consuming a token
FrameWeight(f) ==
  CASE f.fn = "ParseExpression" /\ f.at = "enter" -> 5
    [] f.fn = "ParseExpression" /\ f.at = "afterPrimary" -> 3
    [] f.fn = "ParseExpression" /\ f.at = "afterRHS" -> 1
    [] f.fn = "parsePrimary" -> 1
    [] f.fn = "parseBinOpRHS" /\ f.at = "loop" -> 1
    [] f.fn = "parseBinOpRHS" /\ f.at = "afterPrimary" -> 4
    [] f.fn = "parseBinOpRHS" /\ f.at = "afterRecurse" -> 2

\* one token to consume outweighs the heaviest call
TokenWeight == FrameWeight(CallParseExpression) + 1

RECURSIVE StackWeight(_)
StackWeight(st) ==
  IF st = <<>> THEN 0 ELSE FrameWeight(Head(st)) + StackWeight(Tail(st))

Measure ==
  CASE pc = "Parse" -> TokenWeight * Len(Tokens) + 9
    [] pc = "NewAST" -> TokenWeight * Len(Tokens) + 8
    [] pc = "ParseExpression" -> TokenWeight * Remaining + StackWeight(stack) + 2
    [] pc = "Exec" -> 1
    [] pc = "done" -> 0

ParserTerminates ==
  /\ (pc = "NewAST" /\ Len(Tokens) > 0) ~> (ParseReturned /\ depth = 0)
  /\ [](ParseReturned => depth = 0)
  /\ [][Measure' < Measure /\ Measure' >= 0]_vars

\* the parser returned although a rejected or stale token stayed current:
\* the position ran past the last token
TerminationWitness ==
  /\ ParseReturned
  /\ depth = 0
  /\ currIndex > Len(Tokens)
  /\ Err # NoErr

====
